---- MODULE Spec2Model ----
(***************************************************************************)
(* Model of the Obsidian summarizer plugin (src/main.ts, and its earlier   *)
(* revision src/unnamed/part_001): link resolution, aggregation of linked  *)
(* notes, prompt building and the completion call.                         *)
(***************************************************************************)
EXTENDS Naturals, Sequences, FiniteSets, TLC

VARIABLES
    vault,          \* app.vault: the ordered listing of the vault's files
    metadataCache,  \* app.metadataCache: path -> file cache (frontmatter aliases, links)
    call,           \* one invocation of a function on its own: arguments and result
    build,          \* which revision of the plugin is loaded: "main.ts" or "part_001"
    data,           \* the plugin's saved data (loadData / saveData)
    settings,       \* SummarizerPlugin.settings
    apiCaller,      \* SummarizerPlugin.apiCaller, constructed in onload
    edits,          \* number of changes made in the settings tab
    modal           \* the SummarizerModal instances and their pending onOpen

env == <<vault, metadataCache, build>>
config == <<data, settings, apiCaller, edits>>
vars == <<vault, metadataCache, call, build, data, settings, apiCaller, edits, modal>>

----------------------------------------------------------------------------
(* Bounds of the model *)

\* files in a vault drawn for the resolver
MaxFiles == 2

\* links in the link metadata of the note whose links are aggregated
MaxLinks == 3

\* links in the link metadata of that note when the whole plugin runs
MaxNoteLinks == 1

\* changes made in the settings tab
MaxEdits == 1
MaxDocs == 3
NumModals == 2

----------------------------------------------------------------------------
(* The vault: files, folders, metadata *)

Null == [type |-> "null"]

\* Obsidian's TFile: path = parent folder + name, name = basename "." extension
TFile(dir, basename, extension) ==
    [type |-> "TFile",
     path |-> dir \o basename \o (IF extension = "" THEN "" ELSE "." \o extension),
     basename |-> basename,
     extension |-> extension,
     parent |-> dir]

TFolder(path) == [type |-> "TFolder", path |-> path]

Dirs == {"", "d/"}
Basenames == {"a", "d"}
Extensions == {"md", ""}

\* the folder a directory prefix names
FolderPath(dir) == IF dir = "d/" THEN "d" ELSE "/"

AllFiles == {TFile(dr, b, e) : dr \in Dirs, b \in Basenames, e \in Extensions}

\* link texts a note's link metadata can carry
LinkTexts == {"a", "d", "a.md", "zz"}

\* frontmatter.aliases: absent, one string, or a list
NoAliases == [kind |-> "undefined", str |-> "", arr |-> <<>>]
AliasString(s) == [kind |-> "string", str |-> s, arr |-> <<>>]
AliasArray(l) == [kind |-> "array", str |-> "", arr |-> l]

AliasChoices ==
    {NoAliases, AliasString("a"), AliasString(""), AliasArray(<<>>),
     AliasArray(<<"d", "a.md">>)}

\* fileCache.links: absent, or the list of link texts
NoLinks == [defined |-> FALSE, items |-> <<>>]
Links(l) == [defined |-> TRUE, items |-> l]

FileCache(aliases, links) == [frontmatter |-> [aliases |-> aliases], links |-> links]

\* sequences of length n over S without repetition of the path
RECURSIVE VaultsOfLen(_)
VaultsOfLen(n) ==
    IF n = 0 THEN {<<>>}
    ELSE {Append(v, f) : v \in VaultsOfLen(n - 1), f \in AllFiles}

DistinctPaths(v) == \A i, j \in 1..Len(v) : i # j => v[i].path # v[j].path

Vaults == {v \in UNION {VaultsOfLen(n) : n \in 1..MaxFiles} : DistinctPaths(v)}

Paths(v) == {v[i].path : i \in 1..Len(v)}

\* vault.getAbstractFileByPath: the file or folder at exactly that path
getAbstractFileByPath(vlt, path) ==
    IF \E i \in 1..Len(vlt) : vlt[i].path = path
    THEN vlt[CHOOSE i \in 1..Len(vlt) : vlt[i].path = path]
    ELSE IF \E i \in 1..Len(vlt) : vlt[i].parent # "" /\ FolderPath(vlt[i].parent) = path
    THEN TFolder(path)
    ELSE Null

\* vault.getMarkdownFiles: the markdown files, in listing order
getMarkdownFiles(vlt) == SelectSeq(vlt, LAMBDA f : f.extension = "md")

\* metadataCache.getFileCache
getFileCache(file) ==
    IF file.path \in DOMAIN metadataCache THEN metadataCache[file.path] ELSE Null

----------------------------------------------------------------------------
(* SummarizerModal.resolveLinkedFile *)

\* fileCache?.frontmatter?.aliases is truthy
HasAliases(fileCache) ==
    /\ fileCache # Null
    /\ fileCache.frontmatter.aliases.kind # "undefined"
    /\ ~(fileCache.frontmatter.aliases.kind = "string"
         /\ fileCache.frontmatter.aliases.str = "")

\* variant: only the list form of the aliases is read
NormalizeAliases_ListOnly(aliases) == aliases.arr

\* Array.isArray(aliases) ? aliases : [aliases]
NormalizeAliases(aliases) ==
    IF aliases.kind = "array" THEN aliases.arr ELSE <<aliases.str>>

\* for (const alias of aliases) if (alias === linkText) return file
AliasMatches(file, linkText) ==
    LET fileCache == getFileCache(file) IN
    /\ HasAliases(fileCache)
    /\ LET aliases == NormalizeAliases(fileCache.frontmatter.aliases) IN
       \E k \in 1..Len(aliases) : aliases[k] = linkText

\* variant: the basename of every file is tried before any alias
ScanFiles_TwoPass(files, i, linkText) ==
    IF \E k \in i..Len(files) : files[k].basename = linkText
    THEN files[CHOOSE k \in i..Len(files) :
                 /\ files[k].basename = linkText
                 /\ \A l \in i..(k - 1) : files[l].basename # linkText]
    ELSE IF \E k \in i..Len(files) : AliasMatches(files[k], linkText)
    THEN files[CHOOSE k \in i..Len(files) :
                 /\ AliasMatches(files[k], linkText)
                 /\ \A l \in i..(k - 1) : ~AliasMatches(files[l], linkText)]
    ELSE Null

\* variant: falls back to the first file when nothing matches
ScanFiles_Fallback(files, i, linkText) ==
    IF \E k \in i..Len(files) :
         files[k].basename = linkText \/ AliasMatches(files[k], linkText)
    THEN files[CHOOSE k \in i..Len(files) :
                 /\ (files[k].basename = linkText \/ AliasMatches(files[k], linkText))
                 /\ \A l \in i..(k - 1) :
                      ~(files[l].basename = linkText \/ AliasMatches(files[l], linkText))]
    ELSE IF i <= Len(files) THEN files[i] ELSE Null

\* variant: the scan keeps the last file that matches
ScanFiles_Last(files, i, linkText) ==
    IF \E k \in i..Len(files) :
         files[k].basename = linkText \/ AliasMatches(files[k], linkText)
    THEN files[CHOOSE k \in i..Len(files) :
                 /\ (files[k].basename = linkText \/ AliasMatches(files[k], linkText))
                 /\ \A l \in (k + 1)..Len(files) :
                      ~(files[l].basename = linkText \/ AliasMatches(files[l], linkText))]
    ELSE Null

\* the for loop over vault.getMarkdownFiles(), from index i on
RECURSIVE ScanFiles(_, _, _)
ScanFiles(files, i, linkText) ==
    IF i > Len(files) THEN Null
    ELSE IF files[i].basename = linkText THEN files[i]
    ELSE IF AliasMatches(files[i], linkText) THEN files[i]
    ELSE ScanFiles(files, i + 1, linkText)

\* variant: no direct path resolution
resolveLinkedFile_NoPath(link, vlt) ==
    ScanFiles(getMarkdownFiles(vlt), 1, link.link)

resolveLinkedFile(link, vlt) ==
    LET linkText == link.link
        linkedFile == getAbstractFileByPath(vlt, linkText)
    IN IF linkedFile.type = "TFile" THEN linkedFile
       ELSE ScanFiles(getMarkdownFiles(vlt), 1, linkText)

----------------------------------------------------------------------------
(* Settings and ApiCaller *)

Undefined == "<undefined>"

DEFAULT_SETTINGS ==
    [mySetting |-> "default",
     openaiApiKey |-> "",
     anthropicApiKey |-> "",
     deepseekApiKey |-> "",
     llmProvider |-> "openai",
     llmModelId |-> "gpt-4o"]

Providers == {"openai", "anthropic", "deepseek", "foo"}
ModelIds == {"gpt-4o", "deepseek-chat"}
KeyValues == {"", "sk-new"}

\* what saveData may have stored before this load
SavedData ==
    {[llmProvider |-> p, openaiApiKey |-> "sk-o", anthropicApiKey |-> "sk-a",
      deepseekApiKey |-> "sk-d"] : p \in Providers}

\* Object.assign({}, DEFAULT_SETTINGS, await this.loadData())
loadSettings(saved) ==
    [k \in DOMAIN DEFAULT_SETTINGS |->
        IF k \in DOMAIN saved THEN saved[k] ELSE DEFAULT_SETTINGS[k]]

\* new ApiCaller(settings)
ApiCaller(s) ==
    [provider |-> s.llmProvider,
     apiKey |-> IF s.llmProvider = "openai" THEN s.openaiApiKey
                ELSE IF s.llmProvider = "anthropic" THEN s.anthropicApiKey
                ELSE IF s.llmProvider = "deepseek" THEN s.deepseekApiKey
                ELSE Undefined,
     llmModelId |-> s.llmModelId]

Thrown(message) == [ok |-> FALSE, message |-> message]

\* variant: an unknown provider falls back to the OpenAI endpoint
createClient_Default(caller) ==
    [ok |-> TRUE,
     client |-> [apiKey |-> caller.apiKey,
                 baseURL |-> IF caller.provider = "anthropic" THEN "https://api.anthropic.com/v1"
                             ELSE IF caller.provider = "deepseek" THEN "https://api.deepseek.com/v1"
                             ELSE "https://api.openai.com/v1"]]

\* ApiCaller.createClient, with createOpenAIClient
createClient(caller) ==
    IF caller.provider = "openai"
    THEN [ok |-> TRUE, client |-> [apiKey |-> caller.apiKey, baseURL |-> "https://api.openai.com/v1"]]
    ELSE IF caller.provider = "anthropic"
    THEN [ok |-> TRUE, client |-> [apiKey |-> caller.apiKey, baseURL |-> "https://api.anthropic.com/v1"]]
    ELSE IF caller.provider = "deepseek"
    THEN [ok |-> TRUE, client |-> [apiKey |-> caller.apiKey, baseURL |-> "https://api.deepseek.com/v1"]]
    ELSE Thrown("Unsupported provider: " \o caller.provider)

\* ApiCaller.chatCompletion: the request client.chat.completions.create sends
chatCompletion(caller, messages) ==
    LET made == createClient(caller) IN
    IF made.ok
    THEN [ok |-> TRUE,
          request |-> [baseURL |-> made.client.baseURL,
                       apiKey |-> made.client.apiKey,
                       model |-> caller.llmModelId,
                       messages |-> messages]]
    ELSE made

----------------------------------------------------------------------------
(* SummarizerModal *)

Modals == DOMAIN modal

\* vault.cachedRead of a file that can be read
FileText(path) == "Body of " \o path

\* the entry pushed for a link that resolved and was read
LinkEntry(linkText, content) ==
    "Internal Link (" \o linkText \o "):\n" \o content \o "\n\n"

\* linkedContents.join('')
RECURSIVE Join(_)
Join(parts) == IF parts = <<>> THEN "" ELSE Head(parts) \o Join(Tail(parts))

\* variant: the linked content is left out of the prompt
buildMessages_NoLinked(content, additionalContent, summarizeWithLinks) ==
    <<[role |-> "system", content |-> "You are a helpful assistant that briefly summarizes text."],
      [role |-> "user", content |-> "Please briefly summarize the following text:\n\n" \o content]>>

\* the messages onOpen builds
buildMessages(content, additionalContent, summarizeWithLinks) ==
    LET promptContent ==
          IF summarizeWithLinks
          THEN "Please briefly summarize the following text and its linked content:\n\nMain Content:\n"
               \o content \o "\n\nLinked Content:\n" \o additionalContent
          ELSE "Please briefly summarize the following text:\n\n" \o content
    IN <<[role |-> "system", content |-> "You are a helpful assistant that briefly summarizes text."],
         [role |-> "user", content |-> promptContent]>>

El(tag, text) == [tag |-> tag, text |-> text]

\* the loading indicator onOpen shows first
Loading == <<El("div.loading-container", "Generating summary...")>>

NoResponse == [kind |-> "none", choices |-> <<>>, message |-> ""]
Fulfilled(choices) == [kind |-> "fulfilled", choices |-> choices, message |-> ""]
Rejected(message) == [kind |-> "rejected", choices |-> <<>>, message |-> message]
Choice(content) == [message |-> [content |-> content]]

\* content null is the empty marker: both are falsy in `content || fallback`
NullContent == "<null>"

\* what the provider may answer
Responses ==
    {Fulfilled(<<Choice("A summary.")>>), Fulfilled(<<Choice("")>>),
     Fulfilled(<<Choice(NullContent)>>), Fulfilled(<<>>),
     Rejected("Connection error.")}

IdleModal ==
    [pc |-> "idle", isOpen |-> FALSE, summarizeWithLinks |-> FALSE, file |-> Null,
     content |-> "", additionalContent |-> "", linked |-> "none", links |-> <<>>, i |-> 1,
     linkedFile |-> Null, linkedContents |-> <<>>, errors |-> <<>>, reads |-> <<>>,
     resolves |-> 0, contentEl |-> <<>>, clients |-> 0, requests |-> <<>>,
     response |-> NoResponse]

\* line 231 of main.ts is `if (false)`; part_001 tests `this.apiCaller`
ApiBranch == IF build = "main.ts" THEN FALSE ELSE apiCaller # Null

\* the rest of onOpen once content and additionalContent are known, up to
\* the await of the completion
OnOpenTail(md) ==
    IF ApiBranch
    THEN LET messages == buildMessages(md.content, md.additionalContent, md.summarizeWithLinks)
             sent == chatCompletion(apiCaller, messages)
         IN IF sent.ok
            THEN [md EXCEPT !.pc = "completion", !.clients = @ + 1,
                            !.requests = Append(@, sent.request)]
            ELSE [md EXCEPT !.pc = "done",
                            !.contentEl = <<El("p", "Error getting summary: " \o sent.message),
                                            El("pre", md.content)>>]
    ELSE [md EXCEPT !.pc = "done",
                    !.contentEl = <<El("#text", "No API caller available. Raw content:\n\n"
                                                \o md.content)>>]

\* fileCache?.links
LinksOf(file) ==
    LET fileCache == getFileCache(file) IN
    IF fileCache = Null \/ ~fileCache.links.defined THEN <<>> ELSE fileCache.links.items

\* a command opens a modal on the active note: onOpen up to its first await
OpenModal(m, file, withLinks) ==
    /\ modal[m].pc \in {"idle", "done"}
    /\ ~modal[m].isOpen
    /\ withLinks => build = "main.ts"
    /\ LET md == [IdleModal EXCEPT !.isOpen = TRUE, !.summarizeWithLinks = withLinks,
                                   !.file = file, !.content = FileText(file.path),
                                   !.contentEl = Loading]
       IN modal' = [modal EXCEPT ![m] =
            IF withLinks
            THEN [md EXCEPT !.pc = "readRoot", !.linked = "pending", !.links = LinksOf(file),
                            !.reads = Append(@, file.path)]
            ELSE OnOpenTail(md)]
    /\ UNCHANGED <<env, config, call>>

\* variant: the rejection of the root read is not caught by onOpen
ReadRootDone_Uncaught(m, ok) ==
    /\ modal[m].pc = "readRoot"
    /\ modal' = [modal EXCEPT ![m] =
         IF ok THEN [@ EXCEPT !.pc = "loop", !.i = 1]
         ELSE [@ EXCEPT !.pc = "done", !.linked = "threw"]]
    /\ UNCHANGED <<env, config, call>>

\* getLinkedContents: vault.cachedRead(file) of the root settles
ReadRootDone(m, ok) ==
    /\ modal[m].pc = "readRoot"
    /\ modal' = [modal EXCEPT ![m] =
         IF ok THEN [@ EXCEPT !.pc = "loop", !.i = 1]
         ELSE [@ EXCEPT !.pc = "done", !.linked = "threw",
                        !.contentEl = <<El("p", "Error processing content: " \o "EIO")>>]]
    /\ UNCHANGED <<env, config, call>>

\* variant: the links of a linked file are queued behind the links of the root
ProcessLink_Follow(m) ==
    /\ modal[m].pc = "loop"
    /\ modal[m].i <= Len(modal[m].links)
    /\ LET linkedFile == resolveLinkedFile([link |-> modal[m].links[modal[m].i]], vault) IN
       modal' = [modal EXCEPT ![m] =
         IF linkedFile # Null
         THEN [@ EXCEPT !.pc = "readLinked", !.linkedFile = linkedFile, !.resolves = @ + 1,
                        !.reads = Append(@, linkedFile.path),
                        !.links = IF Len(@) < 2 * MaxLinks THEN @ \o LinksOf(linkedFile) ELSE @]
         ELSE [@ EXCEPT !.i = @ + 1, !.resolves = @ + 1]]
    /\ UNCHANGED <<env, config, call>>

\* variant: a link that resolves to nothing is an error that ends getLinkedContents
ProcessLink_Unresolved(m) ==
    /\ modal[m].pc = "loop"
    /\ modal[m].i <= Len(modal[m].links)
    /\ LET linkedFile == resolveLinkedFile([link |-> modal[m].links[modal[m].i]], vault) IN
       modal' = [modal EXCEPT ![m] =
         IF linkedFile # Null
         THEN [@ EXCEPT !.pc = "readLinked", !.linkedFile = linkedFile, !.resolves = @ + 1,
                        !.reads = Append(@, linkedFile.path)]
         ELSE [@ EXCEPT !.pc = "done", !.linked = "threw", !.resolves = @ + 1,
                        !.contentEl = <<El("p", "Error processing content: " \o "unresolved")>>]]
    /\ UNCHANGED <<env, config, call>>

\* one iteration of the loop over fileCache.links, up to the read of the linked file
ProcessLink(m) ==
    /\ modal[m].pc = "loop"
    /\ modal[m].i <= Len(modal[m].links)
    /\ LET linkedFile == resolveLinkedFile([link |-> modal[m].links[modal[m].i]], vault) IN
       modal' = [modal EXCEPT ![m] =
         IF linkedFile # Null
         THEN [@ EXCEPT !.pc = "readLinked", !.linkedFile = linkedFile, !.resolves = @ + 1,
                        !.reads = Append(@, linkedFile.path)]
         ELSE [@ EXCEPT !.i = @ + 1, !.resolves = @ + 1]]
    /\ UNCHANGED <<env, config, call>>

\* variant: a failed read of a linked file ends getLinkedContents
ReadLinkedStep_Abort(md, ok) ==
    IF ok
    THEN [md EXCEPT !.pc = "loop", !.i = @ + 1, !.linkedFile = Null,
                    !.linkedContents = Append(@, LinkEntry(md.links[md.i], FileText(md.linkedFile.path)))]
    ELSE [md EXCEPT !.pc = "done", !.linked = "threw", !.linkedFile = Null,
                    !.contentEl = <<El("p", "Error processing content: " \o "EIO")>>]

\* variant: an entry already pushed is not pushed again
ReadLinkedStep_Dedup(md, ok) ==
    LET entry == LinkEntry(md.links[md.i], FileText(md.linkedFile.path)) IN
    IF ok /\ \A k \in 1..Len(md.linkedContents) : md.linkedContents[k] # entry
    THEN [md EXCEPT !.pc = "loop", !.i = @ + 1, !.linkedFile = Null,
                    !.linkedContents = Append(@, entry)]
    ELSE [md EXCEPT !.pc = "loop", !.i = @ + 1, !.linkedFile = Null]

\* what the loop does when the read of the linked file settles: push the
\* entry, or catch and log the error
ReadLinkedStep(md, ok) ==
    IF ok
    THEN [md EXCEPT !.pc = "loop", !.i = @ + 1, !.linkedFile = Null,
                    !.linkedContents = Append(@, LinkEntry(md.links[md.i], FileText(md.linkedFile.path)))]
    ELSE [md EXCEPT !.pc = "loop", !.i = @ + 1, !.linkedFile = Null,
                    !.errors = Append(@, md.i)]

\* variant: linkedContents is one array shared by the calls in flight
ReadLinkedDone_Shared(m, ok) ==
    /\ modal[m].pc = "readLinked"
    /\ modal' = [k \in DOMAIN modal |->
         IF k = m THEN ReadLinkedStep(modal[k], ok)
         ELSE IF ok /\ modal[k].linked = "pending"
         THEN [modal[k] EXCEPT !.linkedContents =
                 Append(@, LinkEntry(modal[m].links[modal[m].i],
                                     FileText(modal[m].linkedFile.path)))]
         ELSE modal[k]]
    /\ UNCHANGED <<env, config, call>>

\* vault.cachedRead(linkedFile) settles
ReadLinkedDone(m, ok) ==
    /\ modal[m].pc = "readLinked"
    /\ modal' = [modal EXCEPT ![m] = ReadLinkedStep(@, ok)]
    /\ UNCHANGED <<env, config, call>>

\* getLinkedContents returns linkedContents.join(''); onOpen goes on
LinksDone(m) ==
    /\ modal[m].pc = "loop"
    /\ modal[m].i > Len(modal[m].links)
    /\ modal' = [modal EXCEPT ![m] =
         OnOpenTail([@ EXCEPT !.linked = "returned",
                             !.additionalContent = Join(modal[m].linkedContents)])]
    /\ UNCHANGED <<env, config, call>>

\* response.choices[0].message.content || 'No summary available', or the
\* TypeError of reading .message of undefined
SummaryText(response) ==
    IF response.choices = <<>>
    THEN Thrown("Cannot read properties of undefined (reading 'message')")
    ELSE LET content == response.choices[1].message.content IN
         [ok |-> TRUE,
          text |-> IF content = "" \/ content = NullContent
                   THEN "No summary available" ELSE content]

\* variant: a rejected request is sent once more before the error is shown
CompletionStep_Retry(md, response) ==
    IF response.kind = "rejected" /\ Len(md.requests) < 2
    THEN [md EXCEPT !.requests = Append(@, md.requests[1])]
    ELSE LET failure == IF response.kind = "rejected" THEN Thrown(response.message)
                        ELSE SummaryText(response)
         IN IF failure.ok
            THEN [md EXCEPT !.pc = "done", !.response = response,
                            !.contentEl = <<El("h3", "Summary"), El("p", failure.text)>>]
            ELSE [md EXCEPT !.pc = "done", !.response = response,
                            !.contentEl = <<El("p", "Error getting summary: " \o failure.message),
                                            El("pre", md.content)>>]

\* what onOpen does when the completion request settles: show the summary,
\* or catch and show the error
CompletionStep(md, response) ==
    LET failure == IF response.kind = "rejected" THEN Thrown(response.message)
                   ELSE SummaryText(response)
    IN IF failure.ok
       THEN [md EXCEPT !.pc = "done", !.response = response,
                       !.contentEl = <<El("h3", IF md.summarizeWithLinks
                                                THEN "Summary (with linked content)"
                                                ELSE "Summary"),
                                       El("p", failure.text)>>]
       ELSE [md EXCEPT !.pc = "done", !.response = response,
                       !.contentEl = <<El("p", "Error getting summary: " \o failure.message),
                                       El("pre", md.content)>>]

\* the completion request settles
CompletionDone(m, response) ==
    /\ modal[m].pc = "completion"
    /\ modal' = [modal EXCEPT ![m] = CompletionStep(@, response)]
    /\ UNCHANGED <<env, config, call>>

\* SummarizerModal.onClose
onClose(m) ==
    /\ modal[m].isOpen
    /\ modal' = [modal EXCEPT ![m] = [@ EXCEPT !.isOpen = FALSE, !.contentEl = <<>>]]
    /\ UNCHANGED <<env, config, call>>

----------------------------------------------------------------------------
(* SummarizerSettingTab: the onChange handlers *)

\* SummarizerPlugin.saveSettings: saveData(this.settings)
saveSettings == data' = settings'

SetOpenaiApiKey ==
    \E value \in KeyValues :
        /\ edits < MaxEdits
        /\ settings.openaiApiKey # value
        /\ settings' = [settings EXCEPT !.openaiApiKey = value]
        /\ saveSettings
        /\ edits' = edits + 1
        /\ UNCHANGED <<env, apiCaller, modal, call>>

SetAnthropicApiKey ==
    \E value \in KeyValues :
        /\ edits < MaxEdits
        /\ settings.anthropicApiKey # value
        /\ settings' = [settings EXCEPT !.anthropicApiKey = value]
        /\ saveSettings
        /\ edits' = edits + 1
        /\ UNCHANGED <<env, apiCaller, modal, call>>

SetDeepseekApiKey ==
    \E value \in KeyValues :
        /\ edits < MaxEdits
        /\ settings.deepseekApiKey # value
        /\ settings' = [settings EXCEPT !.deepseekApiKey = value]
        /\ saveSettings
        /\ edits' = edits + 1
        /\ UNCHANGED <<env, apiCaller, modal, call>>

SetLlmProvider ==
    \E value \in Providers :
        /\ edits < MaxEdits
        /\ settings.llmProvider # value
        /\ settings' = [settings EXCEPT !.llmProvider = value]
        /\ saveSettings
        /\ edits' = edits + 1
        /\ UNCHANGED <<env, apiCaller, modal, call>>

SetLlmModelId ==
    \E value \in ModelIds :
        /\ edits < MaxEdits
        /\ settings.llmModelId # value
        /\ settings' = [settings EXCEPT !.llmModelId = value]
        /\ saveSettings
        /\ edits' = edits + 1
        /\ UNCHANGED <<env, apiCaller, modal, call>>

----------------------------------------------------------------------------
(* The plugin: the state after onload, and the commands, the modal's steps *)
(* and the settings tab's handlers.                                        *)

\* link texts in the notes of the plugin's vault
NoteLinks == {"a", "d", "a.md", "zz"}

RECURSIVE LinkSeqs(_)
LinkSeqs(n) ==
    IF n = 0 THEN {<<>>}
    ELSE LinkSeqs(n - 1) \cup {Append(l, t) : l \in {x \in LinkSeqs(n - 1) : Len(x) = n - 1},
                                              t \in NoteLinks}

\* a vault with an alias, a path and a basename collision on the same names
PluginVault == <<TFile("", "d", "md"), TFile("d/", "a", "md"), TFile("", "a", "md")>>

\* the same files listed in the opposite order
PluginVaultReversed == <<PluginVault[3], PluginVault[2], PluginVault[1]>>

NoCall == [state |-> "none"]

\* the metadata cache of the plugin's vault, the note a.md carrying the links l
PluginMetadata(l) ==
    [p \in Paths(PluginVault) |->
       IF p = "d.md" THEN FileCache(AliasString("a"), Links(<<"a.md">>))
       ELSE IF p = "d/a.md" THEN FileCache(NoAliases, NoLinks)
       ELSE FileCache(AliasArray(<<"zz.md">>), Links(l))]

\* SummarizerPlugin.onload has run on the saved data
Loaded(saved) ==
    /\ data = saved
    /\ settings = loadSettings(saved)
    /\ apiCaller = ApiCaller(settings)
    /\ edits = 0

PluginInit ==
    /\ build \in {"main.ts", "part_001"}
    /\ \E saved \in SavedData : Loaded(saved)
    /\ vault = PluginVault
    /\ \E l \in LinkSeqs(MaxNoteLinks) : metadataCache = PluginMetadata(l)
    /\ modal = [m \in {1} |-> IdleModal]
    /\ call = NoCall

ActiveNotes == {vault[i] : i \in {j \in 1..Len(vault) : vault[j].extension = "md"}}

SummarizeCurrentNote ==
    \E m \in Modals, file \in ActiveNotes : OpenModal(m, file, FALSE)
SummarizeCurrentNoteWithLinks ==
    \E m \in Modals, file \in ActiveNotes : OpenModal(m, file, TRUE)
RootRead == \E m \in Modals, ok \in BOOLEAN : ReadRootDone(m, ok)
LinkStep == \E m \in Modals : ProcessLink(m)
LinkedRead == \E m \in Modals, ok \in BOOLEAN : ReadLinkedDone(m, ok)
LinksReturn == \E m \in Modals : LinksDone(m)
Completion == \E m \in Modals, response \in Responses : CompletionDone(m, response)
CloseModal == \E m \in Modals : onClose(m)

Next ==
    \/ SummarizeCurrentNote
    \/ SummarizeCurrentNoteWithLinks
    \/ RootRead
    \/ LinkStep
    \/ LinkedRead
    \/ LinksReturn
    \/ Completion
    \/ CloseModal
    \/ SetOpenaiApiKey
    \/ SetAnthropicApiKey
    \/ SetDeepseekApiKey
    \/ SetLlmProvider
    \/ SetLlmModelId

Spec == PluginInit /\ [][Next]_vars

----------------------------------------------------------------------------
(* The aggregation of src/main.ts on its own: Init draws the link metadata *)
(* of the note; the actions are the commands and the steps of onOpen and   *)
(* getLinkedContents.                                                      *)

AggregateInit ==
    /\ build = "main.ts"
    /\ Loaded(CHOOSE saved \in SavedData : saved.llmProvider = "openai")
    /\ vault \in {PluginVault, PluginVaultReversed}
    /\ \E l \in LinkSeqs(MaxLinks) : metadataCache = PluginMetadata(l)
    /\ modal = [m \in {1} |-> IdleModal]
    /\ call = NoCall

AggregateNext ==
    \/ SummarizeCurrentNote
    \/ SummarizeCurrentNoteWithLinks
    \/ RootRead
    \/ LinkStep
    \/ LinkedRead
    \/ LinksReturn
    \/ CloseModal

SpecAggregate == AggregateInit /\ [][AggregateNext]_vars

\* every await of getLinkedContents settles: the reads of the vault and the
\* continuations of the async function are not starved
SpecAggregateLive ==
    /\ SpecAggregate
    /\ WF_vars(RootRead)
    /\ WF_vars(LinkStep)
    /\ WF_vars(LinkedRead)
    /\ WF_vars(LinksReturn)

----------------------------------------------------------------------------
(* Several summarizations in flight at once: every command creates its own *)
(* SummarizerModal, and the steps of their onOpen interleave at the awaits. *)

\* the links of the note a.md
ConcLinkChoices == {<<"d", "a.md">>, <<"a", "zz">>, <<"a.md">>}

ConcInit ==
    /\ build = "main.ts"
    /\ Loaded(CHOOSE saved \in SavedData : saved.llmProvider = "openai")
    /\ vault = PluginVault
    /\ \E l \in ConcLinkChoices : metadataCache = PluginMetadata(l)
    /\ modal = [m \in 1..NumModals |-> IdleModal]
    /\ call = NoCall

ConcNext ==
    \/ SummarizeCurrentNote
    \/ SummarizeCurrentNoteWithLinks
    \/ RootRead
    \/ LinkStep
    \/ LinkedRead
    \/ LinksReturn

SpecConc == ConcInit /\ [][ConcNext]_vars

----------------------------------------------------------------------------
(* The resolver on its own: Init draws a vault, its alias metadata and a   *)
(* link; the one action applies resolveLinkedFile.                         *)

ResolveInit ==
    /\ vault \in Vaults
    /\ \E al \in [1..MaxFiles -> AliasChoices] :
         metadataCache =
           [p \in {vault[i].path : i \in {j \in 1..Len(vault) : vault[j].extension = "md"}} |->
              FileCache(al[CHOOSE i \in 1..Len(vault) : vault[i].path = p], NoLinks)]
    /\ \E t \in LinkTexts : call = [link |-> [link |-> t], state |-> "pending", result |-> Null]
    /\ build = "main.ts"
    /\ data = DEFAULT_SETTINGS
    /\ settings = loadSettings(data)
    /\ apiCaller = ApiCaller(settings)
    /\ edits = 0
    /\ modal = <<>>

ResolveCall ==
    /\ call.state = "pending"
    /\ call' = [call EXCEPT !.state = "returned",
                            !.result = resolveLinkedFile(call.link, vault)]
    /\ UNCHANGED <<env, config, modal>>

ResolveNext == ResolveCall

SpecResolve == ResolveInit /\ [][ResolveNext]_vars

----------------------------------------------------------------------------
(* The resolver over vaults of notes that share basenames and aliases:     *)
(* Init draws the notes in their enumeration order, the frontmatter        *)
(* aliases of each and a link; the actions apply resolveLinkedFile and     *)
(* rewrite the aliases of one note from a single string to a list.         *)

Notes == {TFile(dr, b, "md") : dr \in Dirs, b \in Basenames}

RECURSIVE NoteVaultsOfLen(_)
NoteVaultsOfLen(n) ==
    IF n = 0 THEN {<<>>}
    ELSE {Append(v, f) : v \in NoteVaultsOfLen(n - 1), f \in Notes}

NoteVaults == {v \in UNION {NoteVaultsOfLen(n) : n \in 1..MaxDocs} : DistinctPaths(v)}

\* frontmatter.aliases of a note: absent, a string, a string in another
\* case, the empty string, an empty list, a list
NoteAliasChoices ==
    {NoAliases, AliasString("a"), AliasString("A"), AliasString(""), AliasArray(<<>>),
     AliasArray(<<"d", "a">>)}

NoteLinkTexts == {"a", "d"}

AliasInit ==
    /\ vault \in NoteVaults
    /\ metadataCache \in [Paths(vault) -> {FileCache(al, NoLinks) : al \in NoteAliasChoices}]
    /\ \E t \in NoteLinkTexts :
         call = [link |-> [link |-> t], state |-> "pending", result |-> Null,
                 before |-> Null, rewritten |-> FALSE]
    /\ build = "main.ts"
    /\ data = DEFAULT_SETTINGS
    /\ settings = loadSettings(data)
    /\ apiCaller = ApiCaller(settings)
    /\ edits = 0
    /\ modal = <<>>

\* the frontmatter of the note at path p is edited from `aliases: s` to
\* `aliases: [s]`, and the same link is resolved again
RewriteAliasAsList(p) ==
    /\ call.state = "returned"
    /\ ~call.rewritten
    /\ metadataCache[p].frontmatter.aliases.kind = "string"
    /\ metadataCache' =
         [metadataCache EXCEPT ![p] =
            FileCache(AliasArray(<<metadataCache[p].frontmatter.aliases.str>>), @.links)]
    /\ call' = [call EXCEPT !.state = "pending", !.before = call.result, !.rewritten = TRUE]
    /\ UNCHANGED <<vault, build, config, modal>>

AliasNext ==
    \/ ResolveCall
    \/ \E p \in DOMAIN metadataCache : RewriteAliasAsList(p)

SpecAlias == AliasInit /\ [][AliasNext]_vars

----------------------------------------------------------------------------
(* Properties of the resolver *)

Returned == call.state = "returned"
Token == call.link.link
Docs == getMarkdownFiles(vault)

\* the aliases a document declares (an empty alias string declares none)
DeclaredAliases(f) ==
    IF f.path \notin DOMAIN metadataCache THEN {}
    ELSE LET a == metadataCache[f.path].frontmatter.aliases IN
         IF a.kind = "array" THEN {a.arr[k] : k \in 1..Len(a.arr)}
         ELSE IF a.kind = "string" /\ a.str # "" THEN {a.str}
         ELSE {}

FileAtPath(t) == \E i \in 1..Len(vault) : vault[i].path = t
HasBasename(t) == \E i \in 1..Len(Docs) : Docs[i].basename = t
HasAlias(t) == \E i \in 1..Len(Docs) : t \in DeclaredAliases(Docs[i])
FirstBasename(t) ==
    CHOOSE i \in 1..Len(Docs) :
      Docs[i].basename = t /\ \A j \in 1..(i - 1) : Docs[j].basename # t

\* C1: if the vault has a file at exactly the path t, resolveLinkedFile
\* returns that file, whatever other documents have t as basename or alias
\* and wherever they are in the listing.
C1_ExactPathPriority ==
    (Returned /\ FileAtPath(Token)) =>
        (call.result.type = "TFile" /\ call.result.path = Token)

\* C1 witness: the file at path t is returned although a document listed
\* before it has t as basename or alias.
C1_Witness ==
    /\ Returned
    /\ \E i, j \in 1..Len(vault) :
         /\ j < i
         /\ vault[i].path = Token
         /\ vault[j].extension = "md"
         /\ (vault[j].basename = Token \/ Token \in DeclaredAliases(vault[j]))
         /\ call.result = vault[i]

\* C2 (as stated): with no file at path t and some document of basename t,
\* the result is the first document in enumeration order whose basename is
\* t, even when an earlier document has t among its aliases.
C2_BasenameTierFirst ==
    (Returned /\ ~FileAtPath(Token) /\ HasBasename(Token)) =>
        call.result = Docs[FirstBasename(Token)]

\* C2 (amended): with no file at path t and some document of basename t,
\* the result is the first document in enumeration order whose basename is
\* t or whose aliases contain t: the first basename match, unless an earlier
\* document has the alias t, and then the earliest such document.
C2_FirstBasenameOrAlias ==
    (Returned /\ ~FileAtPath(Token) /\ HasBasename(Token)) =>
        LET b == FirstBasename(Token)
            earlier == {j \in 1..(b - 1) : Token \in DeclaredAliases(Docs[j])}
        IN IF earlier = {} THEN call.result = Docs[b]
           ELSE call.result = Docs[CHOOSE j \in earlier : \A k \in earlier : j <= k]

\* C2 witness: a document with alias t listed before the first document of
\* basename t is the one returned.
C2_Witness ==
    /\ Returned /\ ~FileAtPath(Token) /\ HasBasename(Token)
    /\ \E j \in 1..(FirstBasename(Token) - 1) :
         Token \in DeclaredAliases(Docs[j]) /\ call.result = Docs[j]

\* C9: if no file is at path t and no document has t as basename or among
\* its aliases, resolveLinkedFile returns null; conversely whatever it
\* returns is one file of the vault that matches t by path, basename or alias.
C9_NotFound ==
    Returned =>
        /\ (~FileAtPath(Token) /\ ~HasBasename(Token) /\ ~HasAlias(Token))
              => call.result = Null
        /\ call.result # Null =>
              /\ \E i \in 1..Len(vault) : vault[i] = call.result
              /\ \/ call.result.path = Token
                 \/ /\ call.result.extension = "md"
                    /\ (call.result.basename = Token
                        \/ Token \in DeclaredAliases(call.result))

\* C9 witness: null is returned for a vault that has a document declaring
\* aliases, none of them t.
C9_Witness ==
    /\ Returned /\ call.result = Null
    /\ ~FileAtPath(Token) /\ ~HasBasename(Token) /\ ~HasAlias(Token)
    /\ \E i \in 1..Len(Docs) : DeclaredAliases(Docs[i]) # {}

----------------------------------------------------------------------------
(* The prompt builder on its own: Init draws the texts and the mode; the   *)
(* one action applies buildMessages.                                       *)

RootTexts == {"", "X", "two\nlines", FileText("a.md"), FileText("d.md"), FileText("d/a.md")}

AggregateTexts ==
    {"", "Y", LinkEntry("a", FileText("d.md")),
     LinkEntry("a", FileText("d.md")) \o LinkEntry("a.md", FileText("a.md")),
     LinkEntry("d", "")}

PromptInit ==
    /\ \E c \in RootTexts, a \in AggregateTexts, w \in BOOLEAN :
         call = [state |-> "pending", content |-> c, additionalContent |-> a,
                 summarizeWithLinks |-> w, result |-> <<>>]
    /\ build = "main.ts"
    /\ Loaded(DEFAULT_SETTINGS)
    /\ vault = PluginVault
    /\ metadataCache = PluginMetadata(<<>>)
    /\ modal = <<>>

BuildCall ==
    /\ call.state = "pending"
    /\ call' = [call EXCEPT !.state = "returned",
                            !.result = buildMessages(call.content, call.additionalContent,
                                                     call.summarizeWithLinks)]
    /\ UNCHANGED <<env, config, modal>>

PromptNext == BuildCall

SpecPrompt == PromptInit /\ [][PromptNext]_vars

----------------------------------------------------------------------------
(* Properties of the aggregation *)

\* the document a link text names: the file at that path, else the first
\* document whose basename or alias it is
Target(t) ==
    IF FileAtPath(t) THEN vault[CHOOSE i \in 1..Len(vault) : vault[i].path = t]
    ELSE IF \E i \in 1..Len(Docs) : Docs[i].basename = t \/ t \in DeclaredAliases(Docs[i])
    THEN Docs[CHOOSE i \in 1..Len(Docs) :
                /\ (Docs[i].basename = t \/ t \in DeclaredAliases(Docs[i]))
                /\ \A j \in 1..(i - 1) :
                     ~(Docs[j].basename = t \/ t \in DeclaredAliases(Docs[j]))]
    ELSE Null

\* the entries owed for the first n links: one per occurrence that resolves
\* and whose read did not fail
RECURSIVE OwedEntries(_, _, _)
OwedEntries(links, failed, n) ==
    IF n = 0 THEN <<>>
    ELSE LET before == OwedEntries(links, failed, n - 1)
             t == links[n]
         IN IF Target(t) # Null /\ n \notin failed
            THEN Append(before, "Internal Link (" \o t \o "):\n" \o FileText(Target(t).path) \o "\n\n")
            ELSE before

RECURSIVE Concat(_, _)
Concat(entries, n) == IF n = 0 THEN "" ELSE Concat(entries, n - 1) \o entries[n]

FailedAt(md) == {md.errors[k] : k \in 1..Len(md.errors)}

\* C3: the aggregate getLinkedContents returns is the concatenation, in link
\* order, of one entry "Internal Link (<token>):\n<text>\n\n" per occurrence
\* of a link that resolves and reads, duplicates included, and nothing for an
\* occurrence that does not resolve.
C3_AggregateInOrder ==
    \A m \in Modals :
        modal[m].linked = "returned" =>
            LET owed == OwedEntries(modal[m].links, FailedAt(modal[m]), Len(modal[m].links))
            IN modal[m].additionalContent = Concat(owed, Len(owed))

\* C3 witness: links [a, zz, a], a resolving and zz not, give two entries
\* for a and none for zz.
C3_Witness ==
    \E m \in Modals :
        /\ modal[m].linked = "returned"
        /\ modal[m].links = <<"a", "zz", "a">>
        /\ modal[m].errors = <<>>
        /\ modal[m].additionalContent =
             "Internal Link (a):\nBody of d.md\n\nInternal Link (a):\nBody of d.md\n\n"

\* C4: a failed read of a linked file never ends getLinkedContents with an
\* exception (it throws only when the read of the root itself fails, before
\* any link is processed); the failing occurrence adds no entry and every
\* other resolvable occurrence processed so far has its entry, in order.
C4_FaultIsolation ==
    \A m \in Modals :
        /\ modal[m].linked = "threw" =>
              (modal[m].reads = <<modal[m].file.path>> /\ modal[m].resolves = 0)
        /\ modal[m].linked \in {"pending", "returned"} /\ modal[m].pc # "readRoot" =>
              modal[m].linkedContents =
                 OwedEntries(modal[m].links, FailedAt(modal[m]),
                             IF modal[m].pc = "readLinked" THEN modal[m].i - 1
                             ELSE IF modal[m].pc = "loop" THEN modal[m].i - 1
                             ELSE Len(modal[m].links))
        /\ modal[m].linked = "returned" =>
              \A k \in 1..Len(modal[m].contentEl) : modal[m].contentEl[k].tag # "p"

\* C4 witness: three resolvable links, the read of the second fails, and
\* the call returns exactly the first and the third entry.
C4_Witness ==
    \E m \in Modals :
        /\ modal[m].linked = "returned"
        /\ Len(modal[m].links) = 3
        /\ \A k \in 1..3 : Target(modal[m].links[k]) # Null
        /\ modal[m].errors = <<2>>
        /\ modal[m].linkedContents =
             <<LinkEntry(modal[m].links[1], FileText(Target(modal[m].links[1]).path)),
               LinkEntry(modal[m].links[3], FileText(Target(modal[m].links[3]).path))>>

----------------------------------------------------------------------------
(* Properties of the completion call *)

Supported == {"openai", "anthropic", "deepseek"}

\* C5: every summarization invocation with a supported provider configured
\* has, once onOpen is over, issued exactly one completion request and shows
\* the summary when the request succeeded.
C5_OneRequestPerInvocation ==
    \A m \in Modals :
        (modal[m].pc = "done" /\ apiCaller.provider \in Supported
         /\ modal[m].linked # "threw") =>
            Len(modal[m].requests) = 1

\* C6: with a provider outside {openai, anthropic, deepseek} a completion
\* call fails with an error naming the provider, no client is constructed
\* and no request is issued.
C6_UnsupportedProvider ==
    \A m \in Modals :
        (ApiBranch /\ modal[m].pc \in {"completion", "done"}
         /\ apiCaller.provider \notin Supported) =>
            /\ modal[m].pc = "done"
            /\ modal[m].clients = 0
            /\ modal[m].requests = <<>>
            /\ (modal[m].isOpen =>
                  modal[m].contentEl[1] =
                     El("p", "Error getting summary: Unsupported provider: "
                             \o apiCaller.provider))

\* C6 witness: a completion call was made with provider "foo" and failed.
C6_Witness ==
    \E m \in Modals :
        /\ ApiBranch /\ modal[m].pc = "done" /\ modal[m].isOpen
        /\ apiCaller.provider = "foo"
        /\ modal[m].contentEl[1].text = "Error getting summary: Unsupported provider: foo"
        /\ modal[m].requests = <<>>

NoUsableContent(response) ==
    /\ response.kind = "fulfilled"
    /\ \/ response.choices = <<>>
       \/ response.choices[1].message.content \in {"", NullContent}

\* C7: a response without usable message content (empty or null content of
\* the first choice, or no choice at all) shows the fallback text
\* "No summary available" and no error.
C7_FallbackOnEmptyContent ==
    \A m \in Modals :
        (modal[m].pc = "done" /\ modal[m].isOpen /\ NoUsableContent(modal[m].response)) =>
            modal[m].contentEl = <<El("h3", "Summary"), El("p", "No summary available")>>

BaseUrlOf(provider) ==
    IF provider = "openai" THEN "https://api.openai.com/v1"
    ELSE IF provider = "anthropic" THEN "https://api.anthropic.com/v1"
    ELSE "https://api.deepseek.com/v1"

KeyOf(s) ==
    IF s.llmProvider = "openai" THEN s.openaiApiKey
    ELSE IF s.llmProvider = "anthropic" THEN s.anthropicApiKey
    ELSE s.deepseekApiKey

\* C8: a completion request is issued with the provider, model and API key
\* of the settings in effect when it is issued.
C8_RequestUsesCurrentSettings ==
    [][\A m \in Modals :
         (m \in DOMAIN modal' /\ Len(modal'[m].requests) > Len(modal[m].requests)) =>
            LET r == modal'[m].requests[Len(modal'[m].requests)] IN
            /\ r.model = settings.llmModelId
            /\ r.baseURL = BaseUrlOf(settings.llmProvider)
            /\ r.apiKey = KeyOf(settings)]_vars

----------------------------------------------------------------------------
(* Properties of the prompt builder *)

\* C10: the messages are exactly two, the fixed system message and then one
\* user message: "Please briefly summarize the following text:\n\n<root>"
\* without links, and with links "Please briefly summarize the following
\* text and its linked content:\n\nMain Content:\n<root>\n\nLinked
\* Content:\n<aggregate>".
C10_PromptMessages ==
    call.state = "returned" =>
        /\ Len(call.result) = 2
        /\ call.result[1] =
             [role |-> "system",
              content |-> "You are a helpful assistant that briefly summarizes text."]
        /\ call.result[2].role = "user"
        /\ call.result[2].content =
             IF call.summarizeWithLinks
             THEN "Please briefly summarize the following text and its linked content:"
                  \o "\n\nMain Content:\n" \o call.content
                  \o "\n\nLinked Content:\n" \o call.additionalContent
             ELSE "Please briefly summarize the following text:\n\n" \o call.content

\* C10 witness: messages built with links from a root text and an aggregate
\* of two entries.
C10_Witness ==
    /\ call.state = "returned"
    /\ call.summarizeWithLinks
    /\ call.content = "X"
    /\ call.additionalContent = LinkEntry("a", FileText("d.md")) \o LinkEntry("a.md", FileText("a.md"))
    /\ Len(call.result) = 2

----------------------------------------------------------------------------
(* Failure of the completion request *)

\* C11: when the completion request fails, the invocation has issued that
\* one request and no other (no retry), and the modal shows one error, which
\* carries the message of the underlying error.
C11_FailureSurfacedOnce ==
    \A m \in Modals :
        modal[m].response.kind = "rejected" =>
            /\ modal[m].pc = "done"
            /\ Len(modal[m].requests) = 1
            /\ modal[m].clients = 1
            /\ modal[m].contentEl \in
                  {<<>>, <<El("p", "Error getting summary: " \o modal[m].response.message),
                           El("pre", modal[m].content)>>}
            /\ (modal[m].isOpen => modal[m].contentEl # <<>>)

\* C11 witness: a request was rejected with "Connection error." and the
\* open modal shows that message.
C11_Witness ==
    \E m \in Modals :
        /\ modal[m].response = Rejected("Connection error.")
        /\ modal[m].isOpen
        /\ Len(modal[m].requests) = 1
        /\ modal[m].contentEl[1] = El("p", "Error getting summary: Connection error.")

----------------------------------------------------------------------------
(* The empty aggregate *)

\* no link of the sequence names a document
NothingResolves(links) == \A k \in 1..Len(links) : Target(links[k]) = Null

C12_NoMetadataReturned ==
    \E m \in Modals :
        /\ modal[m].linked = "returned"
        /\ ~getFileCache(modal[m].file).links.defined
        /\ modal[m].additionalContent = ""

----------------------------------------------------------------------------
(* Ties between notes, and the representation of aliases *)

WithBasename(t) == {i \in 1..Len(Docs) : Docs[i].basename = t}
WithAlias(t) == {i \in 1..Len(Docs) : t \in DeclaredAliases(Docs[i])}
Earliest(S) == CHOOSE i \in S : \A j \in S : i <= j

\* C13 as stated: with no file at path t, when several documents have the
\* basename t the earliest of them is returned; when none has the basename
\* t and several have the alias t, the earliest of those is returned.
C13_EarliestInTier ==
    (Returned /\ ~FileAtPath(Token)) =>
        /\ Cardinality(WithBasename(Token)) >= 2 =>
              call.result = Docs[Earliest(WithBasename(Token))]
        /\ (WithBasename(Token) = {} /\ Cardinality(WithAlias(Token)) >= 2) =>
              call.result = Docs[Earliest(WithAlias(Token))]

\* C13 amended: with no file at path t, when several documents have the
\* basename t the one returned is the earliest document that has the
\* basename t or the alias t (the earliest of basename t unless a document
\* with alias t is enumerated before it); when none has the basename t and
\* several have the alias t, the earliest of those is returned.
C13_EarliestMatch ==
    (Returned /\ ~FileAtPath(Token)) =>
        /\ Cardinality(WithBasename(Token)) >= 2 =>
              /\ call.result = Docs[Earliest(WithBasename(Token) \cup WithAlias(Token))]
              /\ (\A j \in WithAlias(Token) : j > Earliest(WithBasename(Token))) =>
                    call.result = Docs[Earliest(WithBasename(Token))]
        /\ (WithBasename(Token) = {} /\ Cardinality(WithAlias(Token)) >= 2) =>
              call.result = Docs[Earliest(WithAlias(Token))]

\* C13 witness: two documents share the basename t, a document with the
\* alias t is enumerated before both, and it is the one returned.
C13_Witness ==
    /\ Returned /\ ~FileAtPath(Token)
    /\ Cardinality(WithBasename(Token)) >= 2
    /\ \E j \in WithAlias(Token) :
         /\ j < Earliest(WithBasename(Token))
         /\ call.result = Docs[j]

\* ties inside one tier: two documents of basename t and none with alias t
\* before them; two documents with alias t and none of basename t
C13_BasenameTie ==
    /\ Returned /\ Cardinality(WithBasename(Token)) >= 2 /\ WithAlias(Token) = {}
    /\ call.result = Docs[Earliest(WithBasename(Token))]

C13_AliasTie ==
    /\ Returned /\ WithBasename(Token) = {} /\ Cardinality(WithAlias(Token)) >= 2
    /\ call.result = Docs[Earliest(WithAlias(Token))]

----------------------------------------------------------------------------
(* Depth one, termination, failure of the root read, close in flight *)

\* the paths read for the first n links of the root: one per link that resolves
RECURSIVE TargetsRead(_, _)
TargetsRead(links, n) ==
    IF n = 0 THEN <<>>
    ELSE IF Target(links[n]) # Null
    THEN Append(TargetsRead(links, n - 1), Target(links[n]).path)
    ELSE TargetsRead(links, n - 1)

\* C15: getLinkedContents attempts one resolution per link of the root, in
\* order; it reads the root and then only the documents its own links
\* resolve to, never the links of a linked document, also when notes link
\* to themselves or to each other; and every call comes to an end.
C15_DepthOneTerminates ==
    /\ [](\A m \in Modals :
            modal[m].linked # "none" =>
                LET rootLinks == LinksOf(modal[m].file) IN
                /\ modal[m].resolves <= Len(rootLinks)
                /\ modal[m].pc = "loop" => modal[m].resolves = modal[m].i - 1
                /\ modal[m].pc = "readLinked" => modal[m].resolves = modal[m].i
                /\ modal[m].linked = "returned" => modal[m].resolves = Len(rootLinks)
                /\ modal[m].reads =
                     <<modal[m].file.path>> \o TargetsRead(rootLinks, modal[m].resolves))
    /\ (modal[1].linked = "pending") ~> (modal[1].linked \in {"returned", "threw"})

\* C15 witness: the root a.md links to itself and to d.md, which links back
\* to a.md; the call has returned after reading a.md, a.md and d.md.
C15_Witness ==
    /\ modal[1].linked = "returned"
    /\ modal[1].file.path = "a.md"
    /\ modal[1].links = <<"a.md", "d">>
    /\ LinksOf(Target("d")) = <<"a.md">>
    /\ modal[1].resolves = 2
    /\ modal[1].reads = <<"a.md", "a.md", "d.md">>

\* C17: when the read of the root at the start of getLinkedContents fails,
\* the call throws before any link is resolved or read, nothing is
\* aggregated, no completion request is made, and onOpen ends showing
\* "Error processing content: <message>" and nothing else.
C17_RootReadFailure ==
    \A m \in Modals :
        modal[m].linked = "threw" =>
            /\ modal[m].pc = "done"
            /\ modal[m].resolves = 0
            /\ modal[m].reads = <<modal[m].file.path>>
            /\ modal[m].linkedContents = <<>>
            /\ modal[m].additionalContent = ""
            /\ modal[m].requests = <<>>
            /\ modal[m].clients = 0
            /\ modal[m].contentEl \in {<<>>, <<El("p", "Error processing content: EIO")>>}
            /\ modal[m].isOpen => modal[m].contentEl # <<>>

\* C17 witness: the root has links that resolve, its read failed, and the
\* open modal shows the error.
C17_Witness ==
    \E m \in Modals :
        /\ modal[m].linked = "threw"
        /\ modal[m].isOpen
        /\ Len(modal[m].links) >= 2
        /\ \A k \in 1..Len(modal[m].links) : Target(modal[m].links[k]) # Null
        /\ modal[m].contentEl = <<El("p", "Error processing content: EIO")>>

\* C18: once onClose has run the content of the modal stays empty: a
\* closed modal shows nothing, whatever was pending when it was closed.
C18_ClosedStaysEmpty ==
    \A m \in Modals : ~modal[m].isOpen => modal[m].contentEl = <<>>

----------------------------------------------------------------------------
(* Summarizations in flight together *)

\* C16: however the steps of several summarizations interleave, each call
\* of getLinkedContents works on the links of its own root and holds, at
\* every point, exactly the entries owed for the links it has processed
\* itself, in their order; what it returns is their concatenation, as when
\* it runs alone; and no step changes the vault or the metadata cache.
C16_NoInterference ==
    /\ [](\A m \in Modals :
            modal[m].linked \in {"pending", "returned"} =>
                LET rootLinks == LinksOf(modal[m].file)
                    processed == IF modal[m].pc = "readRoot" THEN 0
                                 ELSE IF modal[m].pc \in {"loop", "readLinked"}
                                 THEN modal[m].i - 1
                                 ELSE Len(rootLinks)
                    owed == OwedEntries(rootLinks, FailedAt(modal[m]), processed)
                IN /\ modal[m].links = rootLinks
                   /\ modal[m].linkedContents = owed
                   /\ modal[m].linked = "returned" =>
                         modal[m].additionalContent = Concat(owed, Len(owed)))
    /\ [][vault' = vault /\ metadataCache' = metadataCache]_vars

\* C16 witness: two calls on different roots are both waiting for the read
\* of a linked file, the first with one entry already pushed.
C16_Witness ==
    /\ modal[1].pc = "readLinked"
    /\ modal[2].pc = "readLinked"
    /\ modal[1].file # modal[2].file
    /\ modal[1].linkedContents = <<LinkEntry("d", FileText("d.md"))>>
    /\ modal[2].linkedContents = <<>>

\* both calls have returned, each with the aggregate of its own root
C16_BothReturned ==
    /\ modal[1].linked = "returned" /\ modal[1].file.path = "a.md"
    /\ modal[2].linked = "returned" /\ modal[2].file.path = "d.md"
    /\ modal[1].additionalContent =
         LinkEntry("d", FileText("d.md")) \o LinkEntry("a.md", FileText("a.md"))
    /\ modal[2].additionalContent = LinkEntry("a.md", FileText("a.md"))

====
